---- MODULE Spec2Model ----
(***************************************************************************)
(* Model of src/app.py: the cached model provider get_model_data (load the *)
(* pickled artifact or download + train + persist) and the prediction      *)
(* logic run on each button press, inside a sequence of server processes   *)
(* that each rerun the script several times.                               *)
(***************************************************************************)
EXTENDS Integers, Sequences, FiniteSets, TLC

VARIABLES
    disk,        \* the file "crop_yield_model.pkl": [exists, bytes]
    pc,          \* "down" (no process), "ready" (between script runs), "called" (line 189 returned)
    cache,       \* st.cache_resource entry of get_model_data: [set, val]
    data,        \* module variable `data` of the current script run
    call,        \* what the latest get_model_data call did (dl: dataset_download
                 \* was called, tr: LR.fit was called, wr: the file was created)
    last,        \* what the latest prediction request did
    ref,         \* an earlier prediction request of the current process
    procs,       \* process starts so far
    runs,        \* script runs of the current process
    bodyRuns,    \* executions of the body of get_model_data in the current process
    setupRuns,   \* executions of the first-time-setup branch in the current process
    initFailed,  \* an "Initialization Error" was reported in the current process
    writes,      \* open(filename, "wb") that created the file, all processes
    trained      \* what the first successful training returned: [done, val, proc]

vars == <<disk, pc, cache, data, call, last, ref, procs, runs, bodyRuns,
          setupRuns, initFailed, writes, trained>>

-----------------------------------------------------------------------------
(* Bounds *)
MaxProcs == 3
MaxRuns == 3

(* Program constants *)
MaxTemp == 60
CelebrateAbove == 10
NumFeatures == 6

-----------------------------------------------------------------------------
(* Python values: None, a raised exception, a name not yet bound *)
None == [kind |-> "None"]
Raise == [kind |-> "Raise"]
Unset == [kind |-> "Unset"]

(* str(): characters are their ASCII codes, '.' = 46, '0' = 48 *)
RECURSIVE Str(_)
Str(n) == IF n < 10 THEN <<48 + n>> ELSE Str(n \div 10) \o <<48 + (n % 10)>>

(* astype(str) on the temperature column: an integer column gives "28",   *)
(* a float column gives "28.0"                                             *)
AsTypeStr(n, dtype) == IF dtype = "int" THEN Str(n) ELSE Str(n) \o <<46, 48>>

(* Python's order on str *)
LexLess(a, b) ==
    \E i \in 1..Len(b) :
        /\ i - 1 <= Len(a)
        /\ \A j \in 1..(i - 1) : a[j] = b[j]
        /\ (i > Len(a) \/ a[i] < b[i])

(* LabelEncoder.fit: classes_ is the sorted array of the distinct labels *)
SortedClasses(S) ==
    [i \in 1..Cardinality(S) |->
        CHOOSE s \in S : Cardinality({t \in S : LexLess(t, s)}) = i - 1]

LabelEncoderFit(labels) == [kind |-> "LE", classes |-> SortedClasses(labels)]

(* The labels of a fitted encoder, classes_ as a set *)
Labels(enc) == {enc.classes[i] : i \in 1..Len(enc.classes)}

(* LabelEncoder.transform([s])[0]: the index of s in classes_, ValueError  *)
(* for a label that was not seen                                           *)
Transform(enc, s) ==
    IF \E i \in 1..Len(enc.classes) : enc.classes[i] = s
    THEN [kind |-> "ok",
          val |-> (CHOOSE i \in 1..Len(enc.classes) : enc.classes[i] = s) - 1]
    ELSE Raise

(* LinearRegression.fit on rows that follow yield = 10 + temperature code *)
LinearRegressionFit == [kind |-> "LR", nfeat |-> NumFeatures, intercept |-> 10,
                        coef |-> <<0, 0, 1, 0, 0, 0>>]

RECURSIVE Dot(_, _, _)
Dot(c, x, n) == IF n = 0 THEN 0 ELSE Dot(c, x, n - 1) + c[n] * x[n]

(* model.predict(inputs)[0]: a ValueError when the row has not the number  *)
(* of features the model was fitted on                                     *)
ModelPredict(model, x) ==
    IF model.nfeat # Len(x) THEN Raise
    ELSE [kind |-> "ok", val |-> model.intercept + Dot(model.coef, x, Len(x))]

(* pickle.dump / pickle.load of the dict {"model":..., "encoder_temp":...} *)
Serialize(d) == <<"PROTO", d.model, d.encoder_temp, "STOP">>

(* Faulty variant: the encoder is lost on the way through the file *)
Deserialize_DropsEncoder(bytes) ==
    IF Len(bytes) = 4 /\ bytes[4] = "STOP"
    THEN [kind |-> "dict", model |-> bytes[2], encoder_temp |-> None]
    ELSE Raise

Deserialize(bytes) ==
    IF Len(bytes) = 4 /\ bytes[4] = "STOP"
    THEN [kind |-> "dict", model |-> bytes[2], encoder_temp |-> bytes[3]]
    ELSE Raise

NoFile == [exists |-> FALSE, bytes |-> <<>>]
File(b) == [exists |-> TRUE, bytes |-> b]

(* `if data:` and `if temp_encoder:` *)
Truthy(v) == v.kind \notin {"None", "Unset"}

-----------------------------------------------------------------------------
(* What the download can deliver and what can go wrong outside the data *)
TrainTemps == {9, 10, 28}

(* A float column is taken with all the temperatures or with no row: its   *)
(* labels ("28.0") never equal the string of an integer input              *)
Datasets ==
    {ds \in [dir : {"named", "other", "none"},   \* the expected .xlsx, another .xlsx, no .xlsx
             cols : {"all", "noTemperatue", "noYeild"},
             dtype : {"int", "float"},
             temps : SUBSET TrainTemps] :         \* temperatures of the rows left by dropna
        ds.dtype = "float" => ds.temps \in {{}, TrainTemps}}

Faults == {"none", "import", "download", "read", "open", "dump"}

(* Lines 142-187: the first-time-setup branch, as a function of the        *)
(* downloaded data and of the fault that hits it                           *)
Failure(step, dl, tr, file) ==
    [result |-> None, report |-> "InitError", step |-> step,
     dl |-> dl, tr |-> tr, wr |-> file.exists, disk |-> file]

(* Faulty variant: the existence test always fails *)
ArtifactExists_Never(file) == FALSE

(* os.path.exists(filename), line 133 *)
ArtifactExists(file) == file.exists

(* Faulty variant: a None result is not kept *)
CacheStore_SkipsNone(c, v) == IF v = None THEN c ELSE [set |-> TRUE, val |-> v]

(* st.cache_resource, line 128: the value the body returned is kept, None  *)
(* as well                                                                 *)
CacheStore(c, v) == [set |-> TRUE, val |-> v]

(* Nothing is wrong with the download and its rows, the temperature column *)
(* left aside                                                              *)
Clean(ds, fault) ==
    fault = "none" /\ ds.dir # "none" /\ ds.cols # "noYeild" /\ ds.temps # {}

(* Faulty variant: a failure of the write is reported after the whole file is written *)
FirstTimeSetup_FailsAfterSave(ds, fault, cut) ==
    LET LE == IF ds.cols # "noTemperatue"
              THEN LabelEncoderFit({AsTypeStr(t, ds.dtype) : t \in ds.temps})
              ELSE [kind |-> "LE", classes |-> <<>>]
        d == [kind |-> "dict", model |-> LinearRegressionFit, encoder_temp |-> LE]
    IN  IF fault = "import" THEN Failure("import", FALSE, FALSE, NoFile)
        ELSE IF fault = "download" THEN Failure("download", TRUE, FALSE, NoFile)
        ELSE IF ds.dir = "none" THEN Failure("locate", TRUE, FALSE, NoFile)
        ELSE IF fault = "read" THEN Failure("read", TRUE, FALSE, NoFile)
        ELSE IF ds.cols # "all" THEN Failure("select", TRUE, FALSE, NoFile)
        ELSE IF ds.temps = {} THEN Failure("fit", TRUE, TRUE, NoFile)
        ELSE IF fault = "open" THEN Failure("open", TRUE, TRUE, NoFile)
        ELSE IF fault = "dump"
             THEN Failure("dump", TRUE, TRUE, File(Serialize(d)))
        ELSE [result |-> d, report |-> "Ready", step |-> "done",
              dl |-> TRUE, tr |-> TRUE, wr |-> TRUE, disk |-> File(Serialize(d))]

FirstTimeSetup(ds, fault, cut) ==
    LET LE == IF ds.cols # "noTemperatue"
              THEN LabelEncoderFit({AsTypeStr(t, ds.dtype) : t \in ds.temps})
              ELSE [kind |-> "LE", classes |-> <<>>]
        d == [kind |-> "dict", model |-> LinearRegressionFit, encoder_temp |-> LE]
    IN  IF fault = "import" THEN Failure("import", FALSE, FALSE, NoFile)
        ELSE IF fault = "download" THEN Failure("download", TRUE, FALSE, NoFile)
        ELSE IF ds.dir = "none" THEN Failure("locate", TRUE, FALSE, NoFile)
        ELSE IF fault = "read" THEN Failure("read", TRUE, FALSE, NoFile)
        ELSE IF ds.cols # "all" THEN Failure("select", TRUE, FALSE, NoFile)
        ELSE IF ds.temps = {} THEN Failure("fit", TRUE, TRUE, NoFile)
        ELSE IF fault = "open" THEN Failure("open", TRUE, TRUE, NoFile)
        ELSE IF fault = "dump"
             THEN Failure("dump", TRUE, TRUE, File(SubSeq(Serialize(d), 1, cut)))
        ELSE [result |-> d, report |-> "Ready", step |-> "done",
              dl |-> TRUE, tr |-> TRUE, wr |-> TRUE, disk |-> File(Serialize(d))]

(* The artifact file is not validated when it is read (lines 133-135,     *)
(* line 199 allows for a missing "encoder_temp"), so a file that was       *)
(* shipped with the program is used as it is: a model with no encoder, a   *)
(* model fitted on another number of columns.                              *)
ShippedArtifacts ==
    {[kind |-> "dict", model |-> LinearRegressionFit, encoder_temp |-> None],
     [kind |-> "dict", model |-> [LinearRegressionFit EXCEPT !.nfeat = 5],
      encoder_temp |-> LabelEncoderFit({Str(28)})]}

-----------------------------------------------------------------------------
NoCall == [path |-> "none"]
NoReq == [kind |-> "NoReq"]
NotTrained == [done |-> FALSE, val |-> None, proc |-> 0]
EmptyCache == [set |-> FALSE, val |-> None]

Init ==
    /\ disk \in {NoFile} \cup {File(Serialize(f)) : f \in ShippedArtifacts}
    /\ pc = "down"
    /\ cache = EmptyCache
    /\ data = Unset
    /\ call = NoCall
    /\ last = NoReq
    /\ ref = NoReq
    /\ procs = 0
    /\ runs = 0
    /\ bodyRuns = 0
    /\ setupRuns = 0
    /\ initFailed = FALSE
    /\ writes = 0
    /\ trained = NotTrained

(* A server process starts: nothing is cached yet *)
StartProcess ==
    /\ pc = "down"
    /\ procs < MaxProcs
    /\ pc' = "ready"
    /\ procs' = procs + 1
    /\ cache' = EmptyCache
    /\ data' = Unset
    /\ call' = NoCall
    /\ last' = NoReq
    /\ ref' = NoReq
    /\ runs' = 0
    /\ bodyRuns' = 0
    /\ setupRuns' = 0
    /\ initFailed' = FALSE
    /\ UNCHANGED <<disk, writes, trained>>

(* Line 189 when st.cache_resource already holds a value *)
ProviderCached ==
    /\ pc = "ready"
    /\ runs < MaxRuns
    /\ cache.set
    /\ runs' = runs + 1
    /\ data' = cache.val
    /\ pc' = "called"
    /\ call' = [path |-> "cached", raised |-> FALSE, result |-> cache.val,
                report |-> "none", step |-> "none", dl |-> FALSE,
                tr |-> FALSE, wr |-> FALSE, noTempCol |-> FALSE, clean |-> FALSE]
    /\ UNCHANGED <<disk, cache, last, ref, procs, bodyRuns, setupRuns,
                   initFailed, writes, trained>>

(* Line 189, lines 133-135: the file exists and is unpickled; an exception *)
(* of pickle.load leaves the function, ends the script run and is not      *)
(* cached                                                                  *)
ProviderLoad ==
    /\ pc = "ready"
    /\ runs < MaxRuns
    /\ ~cache.set
    /\ ArtifactExists(disk)
    /\ runs' = runs + 1
    /\ bodyRuns' = bodyRuns + 1
    /\ LET r == Deserialize(disk.bytes) IN
        /\ call' = [path |-> "load", raised |-> (r = Raise), result |-> r,
                    report |-> "none", step |-> "none", dl |-> FALSE,
                    tr |-> FALSE, wr |-> FALSE, noTempCol |-> FALSE,
                    clean |-> FALSE]
        /\ IF r = Raise
           THEN /\ pc' = "ready"
                /\ data' = Unset
                /\ cache' = cache
           ELSE /\ pc' = "called"
                /\ data' = r
                /\ cache' = CacheStore(cache, r)
    /\ UNCHANGED <<disk, last, ref, procs, setupRuns, initFailed,
                   writes, trained>>

(* Line 189, lines 137-187: no file, first-time setup *)
ProviderSetup ==
    /\ pc = "ready"
    /\ runs < MaxRuns
    /\ ~cache.set
    /\ ~ArtifactExists(disk)
    /\ \E ds \in Datasets, fault \in Faults, cut \in 0..3 :
         LET s == FirstTimeSetup(ds, fault, cut) IN
           /\ call' = [path |-> "setup", raised |-> FALSE, result |-> s.result,
                       report |-> s.report, step |-> s.step,
                       dl |-> s.dl, tr |-> s.tr, wr |-> s.wr,
                       noTempCol |-> (ds.cols = "noTemperatue"),
                       clean |-> Clean(ds, fault)]
           /\ disk' = s.disk
           /\ data' = s.result
           /\ cache' = CacheStore(cache, s.result)
           /\ initFailed' = (s.report = "InitError")
           /\ writes' = writes + (IF s.wr THEN 1 ELSE 0)
           /\ trained' = IF s.report = "Ready" /\ ~trained.done
                         THEN [done |-> TRUE, val |-> s.result, proc |-> procs]
                         ELSE trained
    /\ runs' = runs + 1
    /\ bodyRuns' = bodyRuns + 1
    /\ setupRuns' = setupRuns + 1
    /\ pc' = "called"
    /\ UNCHANGED <<last, ref, procs>>

(* Faulty variant: an unseen temperature is passed on as it is *)
EncodeTemperature_RawFallback(temp_encoder, temp_input) ==
    IF Truthy(temp_encoder)
    THEN LET t == Transform(temp_encoder, Str(temp_input))
         IN  IF t = Raise THEN temp_input ELSE t.val
    ELSE temp_input

(* Lines 246-255: the temperature feature *)
EncodeTemperature(temp_encoder, temp_input) ==
    IF Truthy(temp_encoder)
    THEN LET t == Transform(temp_encoder, Str(temp_input))
         IN  IF t = Raise THEN 0 ELSE t.val
    ELSE temp_input

(* Faulty variant: the model is called outside of the try *)
PredictionLogic_Unguarded(d, run, rain, temp_input, fertilizer, nitrogen, phosphorus, potassium) ==
    LET model == d.model
        temp_encoder == d.encoder_temp
        final_temp == EncodeTemperature(temp_encoder, temp_input)
        inputs == <<rain, fertilizer, final_temp, nitrogen, phosphorus, potassium>>
        prediction == ModelPredict(model, inputs)
        req == [kind |-> "req", run |-> run, temp_input |-> temp_input, rain |-> rain,
                model |-> model, encoder |-> temp_encoder, inputs |-> inputs]
    IN  IF prediction = Raise
        THEN req @@ [outcome |-> "Exception", uncaught |-> TRUE, shown |-> FALSE,
                     yield_val |-> 0, balloons |-> FALSE]
        ELSE req @@ [outcome |-> "Result", uncaught |-> FALSE, shown |-> TRUE,
                     yield_val |-> prediction.val,
                     balloons |-> (prediction.val > CelebrateAbove)]

(* Lines 241-276: one press of CALCULATE YIELD *)
PredictionLogic(d, run, rain, temp_input, fertilizer, nitrogen, phosphorus, potassium) ==
    LET model == d.model
        temp_encoder == d.encoder_temp
        final_temp == EncodeTemperature(temp_encoder, temp_input)
        inputs == <<rain, fertilizer, final_temp, nitrogen, phosphorus, potassium>>
        prediction == ModelPredict(model, inputs)
        req == [kind |-> "req", run |-> run, temp_input |-> temp_input, rain |-> rain,
                model |-> model, encoder |-> temp_encoder, inputs |-> inputs]
    IN  IF prediction = Raise
        THEN req @@ [outcome |-> "CalcError", uncaught |-> FALSE, shown |-> FALSE,
                     yield_val |-> 0, balloons |-> FALSE]
        ELSE req @@ [outcome |-> "Result", uncaught |-> FALSE, shown |-> TRUE,
                     yield_val |-> prediction.val,
                     balloons |-> (prediction.val > CelebrateAbove)]

(* Faulty variant: the encoder learns the temperature of each request *)
HeldAfterRequest_Learns(d, temp_input) ==
    IF Truthy(d.encoder_temp)
    THEN [d EXCEPT !.encoder_temp =
              LabelEncoderFit(Labels(d.encoder_temp) \cup {Str(temp_input)})]
    ELSE d

(* Lines 241-276 assign neither `data` nor `model` nor `temp_encoder`, and *)
(* transform() and predict() leave their receiver as it is: what the       *)
(* process holds after a request                                           *)
HeldAfterRequest(d, temp_input) == d

(* Values the form can submit (lines 211-228); floats as whole numbers *)
Rains == {1200}
Fertilizer == 75
Nitrogen == 80
Phosphorus == 24
Potassium == 20

(* The requests that `ref` may keep for the comparison with later ones *)
RefTemps == {0, 10, 28}

(* Lines 197-276: the form is shown, the button is pressed *)
Predict ==
    /\ pc = "called"
    /\ Truthy(data)
    /\ \E temp_input \in 0..MaxTemp, rain \in Rains :
         LET r == PredictionLogic(data, runs, rain, temp_input, Fertilizer, Nitrogen,
                                  Phosphorus, Potassium)
         IN  /\ last' = r
             /\ ref' \in (IF ref = NoReq /\ temp_input \in RefTemps
                         THEN {NoReq, r} ELSE {ref})
             /\ data' = HeldAfterRequest(data, temp_input)
             /\ cache' = [cache EXCEPT !.val = HeldAfterRequest(cache.val, temp_input)]
    /\ pc' = "ready"
    /\ UNCHANGED <<disk, call, procs, runs, bodyRuns, setupRuns,
                   initFailed, writes, trained>>

(* The script run ends without a press of the button (or without a form) *)
EndRun ==
    /\ pc = "called"
    /\ pc' = "ready"
    /\ UNCHANGED <<disk, cache, data, call, last, ref, procs, runs, bodyRuns,
                   setupRuns, initFailed, writes, trained>>

(* The server process ends; what st.cache_resource held is gone *)
ExitProcess ==
    /\ pc = "ready"
    /\ pc' = "down"
    /\ cache' = EmptyCache
    /\ data' = Unset
    /\ UNCHANGED <<disk, call, last, ref, procs, runs, bodyRuns, setupRuns,
                   initFailed, writes, trained>>

Next ==
    \/ StartProcess
    \/ ProviderCached
    \/ ProviderLoad
    \/ ProviderSetup
    \/ Predict
    \/ EndRun
    \/ ExitProcess

Spec == Init /\ [][Next]_vars

-----------------------------------------------------------------------------
(* Helpers of the properties *)
ProviderCall == runs' = runs + 1           \* a step that is a call of line 189
Complete(file) == file.exists /\ Deserialize(file.bytes) # Raise
IsReq(r) == r.kind = "req"

(* C1: a provider call made while a file is at the artifact location       *)
(* downloads nothing, trains nothing and leaves the file as it is; when    *)
(* the file holds a persisted artifact (a complete pickled pair) the call  *)
(* returns the deserialized contents of that artifact.                     *)
C1_ExistingArtifactIsLoaded ==
    [][ (ProviderCall /\ disk.exists) =>
          /\ disk' = disk
          /\ ~call'.dl
          /\ ~call'.tr
          /\ ~call'.wr
          /\ writes' = writes
          /\ setupRuns' = setupRuns
          /\ (Complete(disk) =>
                 /\ pc' = "called"
                 /\ ~call'.raised
                 /\ data' = Deserialize(disk.bytes)) ]_vars

C1_Witness ==
    /\ trained.done
    /\ call.path = "load"
    /\ pc = "called"
    /\ data = Deserialize(disk.bytes)
    /\ Truthy(data.encoder_temp)

(* C2: a provider call that finds no file and whose setup steps all        *)
(* succeed downloads once, trains once, writes once and leaves a valid     *)
(* artifact; no later call trains successfully again, and every provider   *)
(* call of a later process takes the load path (or its cache), without a   *)
(* download or a training, and returns the pair the training call          *)
(* returned.                                                               *)
C2_TrainOnceThenLoad ==
    [][ /\ (ProviderCall /\ ~disk.exists /\ call'.report = "Ready") =>
              /\ call'.dl /\ call'.tr /\ call'.wr
              /\ setupRuns' = setupRuns + 1
              /\ writes = 0 /\ writes' = 1
              /\ ~trained.done /\ trained'.done
              /\ Truthy(data')
              /\ trained'.val = data'
              /\ Complete(disk')
              /\ Deserialize(disk'.bytes) = data'
        /\ (ProviderCall /\ trained.done) => call'.report # "Ready"
        /\ (ProviderCall /\ trained.done /\ procs > trained.proc) =>
              /\ call'.path \in {"load", "cached"}
              /\ ~call'.dl /\ ~call'.tr /\ ~call'.wr
              /\ setupRuns' = setupRuns
              /\ writes' = writes
              /\ pc' = "called"
              /\ data' = trained.val ]_vars

C2_Witness ==
    /\ trained.done
    /\ procs > trained.proc
    /\ call.path = "load"
    /\ pc = "called"
    /\ data = trained.val
    /\ writes = 1

(* C3: a first-time setup that fails at any step reports an initialization *)
(* error and returns None; in the rest of that process no prediction is    *)
(* made and the setup branch is not run again.                             *)
C3_InitFailureIsTerminal ==
    /\ (call.path = "setup" /\ call.step # "done") =>
          (call.report = "InitError" /\ call.result = None /\ initFailed)
    /\ (initFailed /\ pc # "down") =>
          /\ cache.set /\ cache.val = None
          /\ (pc = "called" => data = None)
          /\ last = NoReq
          /\ setupRuns = 1
          /\ bodyRuns = 1

C3_Witness ==
    /\ initFailed
    /\ call.path = "cached"
    /\ pc = "ready"
    /\ runs >= 2
    /\ last = NoReq

(* C4: with an encoder present, a request whose temperature, as a string,  *)
(* is not among the encoder's labels passes 0 as third feature; one whose  *)
(* string is among the labels passes the code of that label, its rank in   *)
(* the sorted labels.                                                      *)
C4_Encoded(r) ==
    (IsReq(r) /\ Truthy(r.encoder)) =>
        LET s == Str(r.temp_input)
            labels == Labels(r.encoder)
        IN  /\ ~r.uncaught
            /\ Len(r.inputs) = NumFeatures
            /\ (s \notin labels => r.inputs[3] = 0)
            /\ (s \in labels =>
                   /\ r.inputs[3] = Cardinality({c \in labels : LexLess(c, s)})
                   /\ r.encoder.classes[r.inputs[3] + 1] = s)

C4_TemperatureCode == C4_Encoded(last) /\ C4_Encoded(ref)

C4_Witness ==
    /\ IsReq(ref) /\ IsReq(last)
    /\ Truthy(last.encoder)
    /\ Str(ref.temp_input) \notin Labels(ref.encoder)
    /\ ref.inputs[3] = 0
    /\ Str(last.temp_input) \in Labels(last.encoder)
    /\ last.inputs[3] > 0

(* C5: a request whose model invocation fails is reported as a calculation *)
(* error, the exception does not leave the handler, no result and no       *)
(* balloons are shown; the process goes on and handles later requests with *)
(* the same model and encoder.                                             *)
C5_CalculationErrorIsPerRequest ==
    /\ \A r \in {last, ref} :
          (IsReq(r) /\ ModelPredict(r.model, r.inputs) = Raise) =>
             /\ r.outcome = "CalcError"
             /\ ~r.uncaught
             /\ ~r.shown
             /\ ~r.balloons
    /\ (IsReq(ref) /\ ref.outcome = "CalcError" /\ IsReq(last) /\ last.run > ref.run) =>
          (last.model = ref.model /\ last.encoder = ref.encoder)
    /\ (IsReq(last) /\ last.outcome = "CalcError" /\ pc # "down") =>
          /\ cache.set
          /\ cache.val.model = last.model
          /\ cache.val.encoder_temp = last.encoder

C5_Witness ==
    /\ IsReq(ref) /\ ref.outcome = "CalcError"
    /\ IsReq(last) /\ last.run > ref.run
    /\ last.outcome = "CalcError"
    /\ pc = "ready"

(* C6: across all processes the artifact file is created at most once; a   *)
(* complete artifact is only written by the first successful training; a   *)
(* file that exists is never changed; a process that starts while the file *)
(* exists reads it.                                                        *)
C6_ArtifactWrittenOnce ==
    [][ /\ writes' <= 1
        /\ disk.exists => (disk' = disk /\ writes' = writes)
        /\ (disk' # disk /\ Complete(disk')) =>
              /\ call'.path = "setup" /\ call'.report = "Ready"
              /\ ~trained.done /\ trained'.done
              /\ disk'.bytes = Serialize(trained'.val)
        /\ (ProviderCall /\ ~cache.set /\ disk.exists) => call'.path = "load" ]_vars

C6_Witness ==
    /\ trained.done
    /\ procs >= trained.proc + 2
    /\ call.path = "load"
    /\ writes = 1
    /\ disk.bytes = Serialize(trained.val)

(* C7: within one process the body of get_model_data runs at most once,    *)
(* and a call after the first returns what the first returned.             *)
C7_BodyRunsAtMostOnce ==
    /\ bodyRuns <= 1
    /\ (call.path = "cached" /\ pc = "called") => data = cache.val

(* C8: a first-time setup on a dataset that lacks the temperature column,  *)
(* with nothing else wrong, yields a model with no encoder, and a request  *)
(* served from a model with no encoder passes the raw temperature as third *)
(* feature.                                                                *)
C8_NoColumnGivesRawTemperature ==
    /\ (call.path = "setup" /\ call.noTempCol /\ call.clean) =>
          /\ Truthy(call.result)
          /\ ~Truthy(call.result.encoder_temp)
    /\ (IsReq(last) /\ ~Truthy(last.encoder)) => last.inputs[3] = last.temp_input

(* C9: requests leave the model and the encoder of the process as the      *)
(* provider returned them, and two requests of a process with the same     *)
(* inputs have the same outcome, whatever ran between them.                *)
C9_RequestsAreDeterministic ==
    /\ (IsReq(last) /\ pc # "down") =>
          /\ cache.set
          /\ cache.val.model = last.model
          /\ cache.val.encoder_temp = last.encoder
          /\ (call.path # "none" /\ ~call.raised => call.result = cache.val)
    /\ (IsReq(ref) /\ IsReq(last)) =>
          /\ last.encoder = ref.encoder
          /\ last.model = ref.model
          /\ (last.temp_input = ref.temp_input /\ last.rain = ref.rain) =>
                 [last EXCEPT !.run = ref.run] = ref

C9_Witness ==
    /\ IsReq(ref) /\ IsReq(last)
    /\ last.run > ref.run + 1
    /\ last.temp_input = ref.temp_input
    /\ last.yield_val = ref.yield_val
    /\ Truthy(last.encoder)
    /\ Str(last.temp_input) \notin Labels(last.encoder)
    /\ pc = "ready"

(* C10: a file at the artifact location always holds a complete pickled    *)
(* (model, encoder) pair; a setup that ended in an initialization error    *)
(* left no file.                                                           *)
C10_FileIsCompleteArtifact ==
    /\ disk.exists => Complete(disk)
    /\ (call.path = "setup" /\ call.report = "InitError") => ~disk.exists
====
